---- MODULE Spec2Model ----
(***************************************************************************)
(* The access gate of the Agents of Chaos site: the Cloudflare Pages       *)
(* middleware public/functions/_middleware.js (onRequest).                 *)
(*                                                                         *)
(* A JavaScript string is modelled as the sequence of its characters, each *)
(* a one-character string; a byte outside printable ASCII is the string    *)
(* "x<code>" (for instance "x128").                                        *)
(***************************************************************************)
EXTENDS Integers, Sequences, FiniteSets, TLC

(***************************************************************************)
(* Characters                                                              *)
(***************************************************************************)

\* Printable ASCII, code 32 (space) to 126 (~), in code order (the grave
\* accent, code 96, is written "x96").
Ascii ==
    <<" ", "!", "\"", "#", "$", "%", "&", "'", "(", ")", "*", "+", ",", "-", ".", "/",
      "0", "1", "2", "3", "4", "5", "6", "7", "8", "9", ":", ";", "<", "=", ">", "?",
      "@", "A", "B", "C", "D", "E", "F", "G", "H", "I", "J", "K", "L", "M", "N", "O",
      "P", "Q", "R", "S", "T", "U", "V", "W", "X", "Y", "Z", "[", "\\", "]", "^", "_",
      "x96", "a", "b", "c", "d", "e", "f", "g", "h", "i", "j", "k", "l", "m", "n", "o",
      "p", "q", "r", "s", "t", "u", "v", "w", "x", "y", "z", "{", "|", "}", "~">>

\* The character of a byte (a code unit 0..255 of a binary string).
Chr(b) == IF b >= 32 /\ b <= 126 THEN Ascii[b - 31] ELSE "x" \o ToString(b)

\* The byte of each printable ASCII character.
AsciiCode == [c \in {Ascii[i] : i \in 1..Len(Ascii)} |->
                31 + (CHOOSE i \in 1..Len(Ascii) : Ascii[i] = c)]

Ord(c) == AsciiCode[c]

IsPrintable(c) == c \in DOMAIN AsciiCode

\* ASCII lower-casing of one character, as the URL host parser applies it.
ToLowerChar(c) ==
    IF IsPrintable(c) /\ Ord(c) >= 65 /\ Ord(c) <= 90 THEN Chr(Ord(c) + 32) ELSE c

ToLower(s) == [k \in 1..Len(s) |-> ToLowerChar(s[k])]

(***************************************************************************)
(* String.prototype and Array.prototype methods the gate calls             *)
(***************************************************************************)

\* s.endsWith(suffix)
EndsWithWhole(s, suffix) == s = suffix

EndsWithAnywhere(s, suffix) ==
    \E k \in 1..(Len(s) - Len(suffix) + 1) : SubSeq(s, k, k + Len(suffix) - 1) = suffix

EndsWith(s, suffix) ==
    /\ Len(s) >= Len(suffix)
    /\ SubSeq(s, Len(s) - Len(suffix) + 1, Len(s)) = suffix

\* s.startsWith(prefix)
StartsWithAnyCase(s, prefix) ==
    /\ Len(s) >= Len(prefix)
    /\ ToLower(SubSeq(s, 1, Len(prefix))) = ToLower(prefix)

StartsWith(s, prefix) ==
    /\ Len(s) >= Len(prefix)
    /\ SubSeq(s, 1, Len(prefix)) = prefix

\* s.slice(start) and a.slice(start), start >= 0 counted from 0.
Slice(s, start) == SubSeq(s, start + 1, Len(s))

\* The index of the first occurrence of a character of cs in s; Len(s) + 1 if none.
IndexOfAny(s, cs) ==
    LET hits == {k \in 1..Len(s) : s[k] \in cs}
    IN  IF hits = {} THEN Len(s) + 1
        ELSE CHOOSE k \in hits : \A j \in hits : k <= j

\* s.split(sep) for a one-character separator: the pieces between ALL the
\* occurrences of sep ("".split(":") is [""], "a:".split(":") is ["a", ""]).
RECURSIVE Split(_, _)
Split(s, sep) ==
    LET k == IndexOfAny(s, {sep})
    IN  IF k > Len(s) THEN <<s>>
        ELSE <<SubSeq(s, 1, k - 1)>> \o Split(SubSeq(s, k + 1, Len(s)), sep)

\* a.join(sep) for an array of strings and a one-character separator.
RECURSIVE Join(_, _)
Join(a, sep) ==
    IF Len(a) = 0 THEN <<>>
    ELSE IF Len(a) = 1 THEN a[1]
    ELSE a[1] \o <<sep>> \o Join(Tail(a), sep)

(***************************************************************************)
(* atob: the forgiving-base64 decode of the platform                       *)
(***************************************************************************)

B64Alphabet ==
    <<"A", "B", "C", "D", "E", "F", "G", "H", "I", "J", "K", "L", "M", "N", "O", "P",
      "Q", "R", "S", "T", "U", "V", "W", "X", "Y", "Z", "a", "b", "c", "d", "e", "f",
      "g", "h", "i", "j", "k", "l", "m", "n", "o", "p", "q", "r", "s", "t", "u", "v",
      "w", "x", "y", "z", "0", "1", "2", "3", "4", "5", "6", "7", "8", "9", "+", "/">>

\* The 6-bit value of each base64 character.
B64Code == [c \in {B64Alphabet[i] : i \in 1..Len(B64Alphabet)} |->
              (CHOOSE i \in 1..Len(B64Alphabet) : B64Alphabet[i] = c) - 1]

IsB64Char(c) == c \in DOMAIN B64Code

B64Value(c) == B64Code[c]

\* TAB, LF, FF, CR and SPACE.
AsciiWhitespace == {"x9", "x10", "x12", "x13", " "}

\* The bytes of a whitespace-free, unpadded run of base64 characters whose
\* length is not 1 modulo 4: 4 characters give 3 bytes; a final run of 2 gives
\* 1 byte and of 3 gives 2 bytes, the left-over bits being discarded.
RECURSIVE B64Bytes(_)
B64Bytes(d) ==
    IF Len(d) = 0 THEN <<>>
    ELSE IF Len(d) >= 4 THEN
        LET n == B64Value(d[1]) * 262144 + B64Value(d[2]) * 4096
                 + B64Value(d[3]) * 64 + B64Value(d[4])
        IN  <<Chr(n \div 65536), Chr((n \div 256) % 256), Chr(n % 256)>>
            \o B64Bytes(SubSeq(d, 5, Len(d)))
    ELSE IF Len(d) = 3 THEN
        LET n == B64Value(d[1]) * 4096 + B64Value(d[2]) * 64 + B64Value(d[3])
        IN  <<Chr(n \div 1024), Chr((n \div 4) % 256)>>
    ELSE
        LET n == B64Value(d[1]) * 64 + B64Value(d[2])
        IN  <<Chr(n \div 16)>>

\* With the padding removed: up to two trailing "=" when the length is a
\* multiple of 4.
StripPadding(d) ==
    IF Len(d) % 4 = 0 /\ Len(d) > 0 /\ d[Len(d)] = "="
    THEN IF d[Len(d) - 1] = "=" THEN SubSeq(d, 1, Len(d) - 2)
         ELSE SubSeq(d, 1, Len(d) - 1)
    ELSE d

\* atob(data): [ok |-> TRUE, value |-> the binary string], or ok = FALSE when
\* atob throws a DOMException (InvalidCharacterError).
atob(data) ==
    LET ws(c) == c \notin AsciiWhitespace
        d == StripPadding(SelectSeq(data, ws))
    IN  IF Len(d) % 4 = 1 \/ \E k \in 1..Len(d) : ~IsB64Char(d[k])
        THEN [ok |-> FALSE, value |-> <<>>]
        ELSE [ok |-> TRUE, value |-> B64Bytes(d)]

\* btoa(text) of a printable ASCII text: what a client sends for a payload.
RECURSIVE btoa(_)
btoa(t) ==
    IF Len(t) = 0 THEN <<>>
    ELSE IF Len(t) >= 3 THEN
        LET n == Ord(t[1]) * 65536 + Ord(t[2]) * 256 + Ord(t[3])
        IN  <<B64Alphabet[(n \div 262144) + 1], B64Alphabet[((n \div 4096) % 64) + 1],
              B64Alphabet[((n \div 64) % 64) + 1], B64Alphabet[(n % 64) + 1]>>
            \o btoa(SubSeq(t, 4, Len(t)))
    ELSE IF Len(t) = 2 THEN
        LET n == (Ord(t[1]) * 256 + Ord(t[2])) * 4
        IN  <<B64Alphabet[(n \div 4096) + 1], B64Alphabet[((n \div 64) % 64) + 1],
              B64Alphabet[(n % 64) + 1], "=">>
    ELSE
        LET n == Ord(t[1]) * 16
        IN  <<B64Alphabet[(n \div 64) + 1], B64Alphabet[(n % 64) + 1], "=", "=">>

(***************************************************************************)
(* new URL(...): the parts of a serialized https URL the gate reads         *)
(***************************************************************************)

\* new URL(u) for u = scheme "://" authority path ["?" query] ["#" fragment]:
\* hostname is the authority without its port, lower-cased; pathname is the
\* path ("/" when empty); search is "?" and the query, or the empty string
\* when the query is absent or empty. context.request.url is a serialized
\* URL, so its path holds no dot segments left to resolve.
URLParse(u) ==
    LET rest      == Slice(u, IndexOfAny(u, {":"}) + 2)
        authEnd   == IndexOfAny(rest, {"/", "?", "#"})
        authority == SubSeq(rest, 1, authEnd - 1)
        tail      == SubSeq(rest, authEnd, Len(rest))
        pathEnd   == IndexOfAny(tail, {"?", "#"})
        rawPath   == SubSeq(tail, 1, pathEnd - 1)
        afterPath == SubSeq(tail, pathEnd, Len(tail))
        query     == IF Len(afterPath) > 0 /\ afterPath[1] = "?"
                     THEN SubSeq(afterPath, 2, IndexOfAny(afterPath, {"#"}) - 1)
                     ELSE <<>>
    IN  [hostname |-> ToLower(SubSeq(authority, 1, IndexOfAny(authority, {":"}) - 1)),
         pathname |-> IF Len(rawPath) = 0 THEN <<"/">> ELSE rawPath,
         search   |-> IF Len(query) = 0 THEN <<>> ELSE <<"?">> \o query]

(***************************************************************************)
(* Configuration and responses                                             *)
(***************************************************************************)

PASSWORD == <<"b", "e", "t", "r", "a", "y", "a", "l">>

CANONICAL ==
    <<"h", "t", "t", "p", "s", ":", "/", "/", "a", "g", "e", "n", "t", "s", "o", "f",
      "c", "h", "a", "o", "s", ".", "b", "a", "u", "l", "a", "b", ".", "i", "n", "f", "o">>

\* The module-level bindings PASSWORD and CANONICAL as the loaded module holds
\* them: [PASSWORD |-> ..., CANONICAL |-> ...], read by every invocation.
VARIABLE config

\* What the clients were answered so far, [passed |-> n, challenged |-> m]:
\* how many requests were passed through and how many got the 401. The gate
\* keeps no such record; it is the history the invocations happen in.
VARIABLE served

\* The literal of url.hostname.endsWith(".pages.dev").
PreviewSuffix == <<".", "p", "a", "g", "e", "s", ".", "d", "e", "v">>

\* The literal of authHeader.startsWith("Basic ").
BasicPrefix == <<"B", "a", "s", "i", "c", " ">>

\* A Response: its status, its body and its headers, a set of <<name, value>>.
MkResponse(status, body, headers) ==
    [status |-> status, body |-> body, headers |-> headers]

\* Response.redirect(url, status): an empty body and a Location header, the
\* serialization of url (url itself, built from a serialized URL's parts).
ResponseRedirect(url, status) == MkResponse(status, <<>>, {<<"Location", url>>})

\* new Response("Unauthorized", {status: 401, headers: {"WWW-Authenticate": ...}})
UnauthorizedNoChallenge ==
    MkResponse(401, <<"U", "n", "a", "u", "t", "h", "o", "r", "i", "z", "e", "d">>, {})

Unauthorized ==
    MkResponse(401,
               <<"U", "n", "a", "u", "t", "h", "o", "r", "i", "z", "e", "d">>,
               {<<"WWW-Authenticate",
                  <<"B", "a", "s", "i", "c", " ", "r", "e", "a", "l", "m", "=", "\"",
                    "A", "g", "e", "n", "t", "s", " ", "o", "f", " ", "C", "h", "a",
                    "o", "s", "\"">>>>})

\* No response (yet).
NoResponse == MkResponse(0, <<>>, {})

\* request.headers.get(name): null when the request has no such header.
HeadersGetFallback(headers, name) ==
    IF \E h \in headers : h[1] = name
    THEN [isNull |-> FALSE, value |-> (CHOOSE h \in headers : h[1] = name)[2]]
    ELSE IF \E h \in headers : h[1] = "Proxy-Authorization"
    THEN [isNull |-> FALSE,
          value |-> (CHOOSE h \in headers : h[1] = "Proxy-Authorization")[2]]
    ELSE [isNull |-> TRUE, value |-> <<>>]

HeadersGet(headers, name) ==
    IF \E h \in headers : h[1] = name
    THEN [isNull |-> FALSE, value |-> (CHOOSE h \in headers : h[1] = name)[2]]
    ELSE [isNull |-> TRUE, value |-> <<>>]

\* The truthiness of a string-or-null: null and "" are falsy.
Truthy(v) == ~v.isNull /\ Len(v.value) > 0

(***************************************************************************)
(* onRequest                                                               *)
(***************************************************************************)

\* The local "password" of onRequest: the decoded text after its first colon.
ExtractPasswordLastColon(decoded) ==
    LET parts == Split(decoded, ":") IN parts[Len(parts)]

ExtractPasswordWhole(decoded) == Join(Split(decoded, ":"), ":")

ExtractPasswordNamed(decoded) ==
    LET parts == Split(decoded, ":")
    IN  IF parts[1] = <<>> THEN <<>> ELSE Join(Slice(parts, 1), ":")

ExtractPassword(decoded) == Join(Slice(Split(decoded, ":"), 1), ":")

\* password === PASSWORD
PasswordMatchesPrefix(password) == StartsWith(password, config.PASSWORD)

PasswordMatchesLockout(password) == password = config.PASSWORD /\ served.challenged = 0

PasswordMatches(password) == password = config.PASSWORD

\* How the synchronous run of onRequest(context) ends, and the locals it set:
\*   kind "return": it returns `response`;
\*   kind "next":   it returns context.next(), the downstream handler's promise;
\*   kind "throw":  atob threw `error`, which nothing catches.
Ended(kind, response, error, decodedSet, decoded, passwordSet, password) ==
    [kind |-> kind, response |-> response, error |-> error,
     decodedSet |-> decodedSet, decoded |-> decoded,
     passwordSet |-> passwordSet, password |-> password]

\* CANONICAL + url.pathname + url.search
RedirectTargetNoSearch(url) == config.CANONICAL \o url.pathname

RedirectTargetWithMark(url) ==
    config.CANONICAL \o url.pathname \o <<"?">>
        \o (IF url.search = <<>> THEN <<>> ELSE Tail(url.search))

RedirectTarget(url) == config.CANONICAL \o url.pathname \o url.search

onRequest(req) ==
    LET url == URLParse(req.url)
    IN  IF EndsWith(url.hostname, PreviewSuffix)
        THEN Ended("return", ResponseRedirect(RedirectTarget(url), 301),
                   "", FALSE, <<>>, FALSE, <<>>)
        ELSE
        LET authHeader == HeadersGet(req.headers, "Authorization")
        IN  IF Truthy(authHeader) /\ StartsWith(authHeader.value, BasicPrefix)
            THEN
                LET decoded == atob(Slice(authHeader.value, 6))
                IN  IF ~decoded.ok
                    THEN Ended("throw", NoResponse, "InvalidCharacterError",
                               FALSE, <<>>, FALSE, <<>>)
                    ELSE
                    LET password == ExtractPassword(decoded.value)
                    IN  IF PasswordMatches(password)
                        THEN Ended("next", NoResponse, "",
                                   TRUE, decoded.value, TRUE, password)
                        ELSE Ended("return", Unauthorized, "",
                                   TRUE, decoded.value, TRUE, password)
            ELSE Ended("return", Unauthorized, "", FALSE, <<>>, FALSE, <<>>)

(***************************************************************************)
(* onRequest of the earlier variant, which has no redirect step            *)
(***************************************************************************)

\* const PASSWORD of the earlier variant.
EarlierPASSWORD == <<"b", "e", "t", "r", "a", "y", "a", "l">>

\* new Response("Unauthorized", {status: 401, headers: {...}}) of the earlier
\* variant.
EarlierUnauthorized ==
    MkResponse(401,
               <<"U", "n", "a", "u", "t", "h", "o", "r", "i", "z", "e", "d">>,
               {<<"WWW-Authenticate",
                  <<"B", "a", "s", "i", "c", " ", "r", "e", "a", "l", "m", "=", "\"",
                    "A", "g", "e", "n", "t", "s", " ", "o", "f", " ", "C", "h", "a",
                    "o", "s", "\"">>>>})

onRequestEarlierCatching(req) ==
    LET authHeader == HeadersGet(req.headers, "Authorization")
    IN  IF Truthy(authHeader) /\ StartsWith(authHeader.value, BasicPrefix)
        THEN
            LET decoded == atob(Slice(authHeader.value, 6))
            IN  IF ~decoded.ok
                THEN Ended("return", EarlierUnauthorized, "", FALSE, <<>>, FALSE, <<>>)
                ELSE
                LET password == ExtractPassword(decoded.value)
                IN  IF password = EarlierPASSWORD
                    THEN Ended("next", NoResponse, "",
                               TRUE, decoded.value, TRUE, password)
                    ELSE Ended("return", EarlierUnauthorized, "",
                               TRUE, decoded.value, TRUE, password)
        ELSE Ended("return", EarlierUnauthorized, "", FALSE, <<>>, FALSE, <<>>)

onRequestEarlier(req) ==
    LET authHeader == HeadersGet(req.headers, "Authorization")
    IN  IF Truthy(authHeader) /\ StartsWith(authHeader.value, BasicPrefix)
        THEN
            LET decoded == atob(Slice(authHeader.value, 6))
            IN  IF ~decoded.ok
                THEN Ended("throw", NoResponse, "InvalidCharacterError",
                           FALSE, <<>>, FALSE, <<>>)
                ELSE
                LET password == ExtractPassword(decoded.value)
                IN  IF password = EarlierPASSWORD
                    THEN Ended("next", NoResponse, "",
                               TRUE, decoded.value, TRUE, password)
                    ELSE Ended("return", EarlierUnauthorized, "",
                               TRUE, decoded.value, TRUE, password)
        ELSE Ended("return", EarlierUnauthorized, "", FALSE, <<>>, FALSE, <<>>)

(***************************************************************************)
(* Requests                                                                *)
(***************************************************************************)

\* The longest username a client sends.
MaxUserLen == 2

\* The slots of requests in flight.
NSlots == 2

Slots == 1..NSlots

UserChars == {"u", "x", ":"}

\* The texts a client sends before the first separating colon: the empty one,
\* plain ones and ones that themselves hold a colon.
Usernames == UNION {[1..n -> UserChars] : n \in 0..MaxUserLen}

\* The texts a client sends as password: the secret; the secret in another
\* case, cut short, with a space added before or after; the empty text; texts
\* with a colon of their own.
PasswordTexts ==
    {PASSWORD,
     <<"B", "e", "t", "r", "a", "y", "a", "l">>,
     <<"b", "e", "t", "r", "a", "y", "a">>,
     <<"b", "e", "t", "r", "a", "y", "a", "l", " ">>,
     <<" ", "b", "e", "t", "r", "a", "y", "a", "l">>,
     <<>>,
     <<"b", "e", ":", "t", "r", "a", "y", "a", "l">>,
     <<"p", "a", "s", "s", ":", "w", "o", "r", "d">>}

\* user ":" password, as a Basic Auth client builds the payload.
Credentials(user, password) == user \o <<":">> \o password

\* The payloads a client encodes: user:password, and texts without the
\* separating colon.
Payloads ==
    {Credentials(u, p) : u \in Usernames, p \in PasswordTexts} \cup PasswordTexts

\* btoa's output without its "=" padding, which atob also accepts.
Unpadded(b) == SelectSeq(b, LAMBDA c : c # "=")

\* Texts after "Basic " that are no base64: characters outside the alphabet,
\* a length of 1 modulo 4, padding in the middle.
Malformed ==
    {<<"!", "!", "!", "n", "o", "t", "b", "a", "s", "e", "6", "4", "!", "!", "!">>,
     <<"d", "T", "p", "i", "Z">>,
     <<"d", "T", "=", "=", "p", "i", "Z", "X">>}

\* base64("u:betrayal") with a space inside, which atob skips.
Spaced ==
    <<"d", "T", "p", "i", " ", "Z", "X", "R", "y", "Y", "X", "l", "h", "b", "A", "=", "=">>

OtherSchemes ==
    {<<"b", "a", "s", "i", "c", " ">>,
     <<"B", "A", "S", "I", "C", " ">>,
     <<"B", "e", "a", "r", "e", "r", " ">>,
     <<"B", "a", "s", "i", "c">>}

\* Payloads with no colon: the password alone, a username alone, nothing.
NoColonPayloads == {PASSWORD, <<"u">>, <<>>}

\* The values of the Authorization header.
AuthValues ==
    {BasicPrefix \o e : e \in {btoa(p) : p \in Payloads \cup NoColonPayloads}
                              \cup {Unpadded(btoa(p)) : p \in Payloads}
                              \cup Malformed \cup {Spaced}}
    \cup {s \o e : s \in OtherSchemes,
                   e \in {btoa(Credentials(<<"u">>, PASSWORD))} \cup Malformed}
    \cup {<<>>}

\* The header sets of a request: no Authorization header, or one.
HeaderSets == {{}} \cup {{<<"Authorization", v>>} : v \in AuthValues}

Hosts ==
    {<<"a", "g", "e", "n", "t", "s", "o", "f", "c", "h", "a", "o", "s", ".", "b", "a",
       "u", "l", "a", "b", ".", "i", "n", "f", "o">>,
     <<"p", "r", "e", "v", "i", "e", "w", "1", "2", "3", ".", "p", "a", "g", "e", "s",
       ".", "d", "e", "v">>,
     <<"p", "a", "g", "e", "s", ".", "d", "e", "v">>,
     <<"x", ".", "p", "a", "g", "e", "s", ".", "d", "e", "v", ".", "e", "x", "a", "m",
       "p", "l", "e", ".", "c", "o", "m">>}

\* Path and query as the request line carries them: no query, a query, and a
\* "?" with nothing after it.
Targets ==
    {<<"/">>,
     <<"/", "r", "e", "p", "o", "r", "t", ".", "h", "t", "m", "l", "?", "x", "=", "1">>,
     <<"/", "r", "e", "p", "o", "r", "t", ".", "h", "t", "m", "l", "?">>}

Scheme == <<"h", "t", "t", "p", "s", ":", "/", "/">>

Urls == {Scheme \o h \o t : h \in Hosts, t \in Targets}

\* context.request: its url, its headers and its method.
Requests == [url : Urls, headers : HeaderSets, method : {"GET"}]

NoRequest == [url |-> <<>>, headers |-> {}, method |-> ""]

\* What the static content layer answers.
DownstreamResponses ==
    {MkResponse(200, <<"<", "h", "t", "m", "l", ">">>,
                {<<"Content-Type", <<"t", "e", "x", "t", "/", "h", "t", "m", "l">>>>}),
     MkResponse(404, <<"N", "o", "t", " ", "F", "o", "u", "n", "d">>, {}),
     MkResponse(304, <<>>, {})}

(***************************************************************************)
(* The state machine: the platform invoking the gate                       *)
(***************************************************************************)

VARIABLES
    pc,          \* per slot: "idle", "received", "awaiting" (on context.next()), "done"
    request,     \* per slot: context.request
    frame,       \* per slot: the locals decoded and password of onRequest
    nextCalls,   \* per slot: how often the invocation called context.next()
    forwarded,   \* per slot: the request context.next() handed downstream
    downstream,  \* per slot: the downstream handler's response
    outcome,     \* per slot: how the promise of onRequest settled
    via,         \* per slot: the url whose redirect the client followed to send
                 \* this request, <<>> for a request of the client's own
    earlier,     \* per slot: how onRequest of the earlier variant ended on the
                 \* same request, where a deployment of it is given the request
    runs         \* the runs of the build-report workflow, oldest first

vars == <<pc, request, frame, nextCalls, forwarded, downstream, outcome, via,
          earlier, config, served, runs>>

\* What an invocation of the gate leaves alone.
beside == <<config, served, runs, earlier>>

\* The earlier variant was not run.
NotRun == Ended("none", NoResponse, "", FALSE, <<>>, FALSE, <<>>)

NoFrame ==
    [decodedSet |-> FALSE, decoded |-> <<>>, passwordSet |-> FALSE, password |-> <<>>]

Pending == [kind |-> "pending", response |-> NoResponse, error |-> ""]

Fulfilled(response) == [kind |-> "response", response |-> response, error |-> ""]

Rejected(error) == [kind |-> "error", response |-> NoResponse, error |-> error]

Init ==
    /\ pc = [i \in Slots |-> "idle"]
    /\ request = [i \in Slots |-> NoRequest]
    /\ frame = [i \in Slots |-> NoFrame]
    /\ nextCalls = [i \in Slots |-> 0]
    /\ forwarded = [i \in Slots |-> NoRequest]
    /\ downstream = [i \in Slots |-> NoResponse]
    /\ outcome = [i \in Slots |-> Pending]
    /\ via = [i \in Slots |-> <<>>]
    /\ earlier = [i \in Slots |-> NotRun]
    /\ config = [PASSWORD |-> PASSWORD, CANONICAL |-> CANONICAL]
    /\ served = [passed |-> 0, challenged |-> 0]
    /\ runs = <<>>

\* A request arrives at the edge.
Arrive(i, r) ==
    /\ pc[i] = "idle"
    /\ pc' = [pc EXCEPT ![i] = "received"]
    /\ request' = [request EXCEPT ![i] = r]
    /\ UNCHANGED <<frame, nextCalls, forwarded, downstream, outcome, via>>
    /\ UNCHANGED beside

\* The platform runs onRequest(context) up to its return, its throw or its
\* call of context.next(), which is handed context.request.
HandleRequest(i) ==
    /\ pc[i] = "received"
    /\ LET e == onRequest(request[i])
       IN  /\ frame' = [frame EXCEPT ![i] =
                          [decodedSet |-> e.decodedSet, decoded |-> e.decoded,
                           passwordSet |-> e.passwordSet, password |-> e.password]]
           /\ IF e.kind = "next"
              THEN /\ pc' = [pc EXCEPT ![i] = "awaiting"]
                   /\ nextCalls' = [nextCalls EXCEPT ![i] = @ + 1]
                   /\ forwarded' = [forwarded EXCEPT ![i] = request[i]]
                   /\ UNCHANGED outcome
              ELSE /\ pc' = [pc EXCEPT ![i] = "done"]
                   /\ outcome' = [outcome EXCEPT ![i] =
                                    IF e.kind = "throw" THEN Rejected(e.error)
                                    ELSE Fulfilled(e.response)]
                   /\ UNCHANGED <<nextCalls, forwarded>>
    /\ UNCHANGED <<request, downstream, via>>
    /\ UNCHANGED beside

\* What the promise of onRequest resolves to when the promise it returned,
\* context.next(), resolves to resp.
PassThroughChallenged(resp) ==
    MkResponse(resp.status, resp.body, resp.headers \cup Unauthorized.headers)

PassThrough(resp) == resp

\* The downstream handler answers; the promise of onRequest follows it.
NextRespondsShared(i, resp) ==
    /\ pc[i] = "awaiting"
    /\ downstream' = [downstream EXCEPT ![i] = resp]
    /\ outcome' = [j \in Slots |->
                      IF pc[j] = "awaiting" THEN Fulfilled(PassThrough(resp))
                      ELSE outcome[j]]
    /\ pc' = [j \in Slots |-> IF pc[j] = "awaiting" THEN "done" ELSE pc[j]]
    /\ UNCHANGED <<request, frame, nextCalls, forwarded, via>>
    /\ UNCHANGED beside

NextResponds(i, resp) ==
    /\ pc[i] = "awaiting"
    /\ downstream' = [downstream EXCEPT ![i] = resp]
    /\ outcome' = [outcome EXCEPT ![i] = Fulfilled(PassThrough(resp))]
    /\ pc' = [pc EXCEPT ![i] = "done"]
    /\ UNCHANGED <<request, frame, nextCalls, forwarded, via>>
    /\ UNCHANGED beside

\* The static content layer answers with one of its responses.
NextAnswers(i) ==
    /\ pc[i] = "awaiting"
    /\ \E resp \in DownstreamResponses : NextResponds(i, resp)

\* The invocation of slot i is over: its context is dropped.
Release(i) ==
    /\ pc[i] = "done"
    /\ pc' = [pc EXCEPT ![i] = "idle"]
    /\ request' = [request EXCEPT ![i] = NoRequest]
    /\ frame' = [frame EXCEPT ![i] = NoFrame]
    /\ nextCalls' = [nextCalls EXCEPT ![i] = 0]
    /\ forwarded' = [forwarded EXCEPT ![i] = NoRequest]
    /\ downstream' = [downstream EXCEPT ![i] = NoResponse]
    /\ outcome' = [outcome EXCEPT ![i] = Pending]
    /\ via' = [via EXCEPT ![i] = <<>>]

\* The platform sends the outcome to the client; the invocation is over.
Deliver(i) == Release(i) /\ UNCHANGED beside

\* A client that sends one request at a time.
ArriveAlone(i) ==
    /\ \A j \in Slots : pc[j] = "idle"
    /\ \E r \in Requests : Arrive(i, r)

Next ==
    \E i \in Slots :
        \/ ArriveAlone(i)
        \/ HandleRequest(i)
        \/ NextAnswers(i)
        \/ Deliver(i)

Spec == Init /\ [][Next]_vars

(***************************************************************************)
(* What the claims speak of, stated on the request as the client sent it    *)
(***************************************************************************)

HasSuffix(s, t) == \E k \in 0..Len(s) : SubSeq(s, k + 1, Len(s)) = t

HasPrefix(s, t) == \E k \in 0..Len(s) : SubSeq(s, 1, k) = t

HasColon(s) == \E k \in 1..Len(s) : s[k] = ":"

\* The text after the first colon of a text that holds one.
AfterFirstColon(s) ==
    LET k == CHOOSE k \in 1..Len(s) : s[k] = ":" /\ \A j \in 1..(k - 1) : s[j] # ":"
    IN  SubSeq(s, k + 1, Len(s))

PreviewHosts == {h \in Hosts : HasSuffix(h, PreviewSuffix)}

PreviewUrls == {Scheme \o h \o t : h \in PreviewHosts, t \in Targets}

\* The request of slot i went to a host that ends with ".pages.dev".
OnPreviewHost(i) == request[i].url \in PreviewUrls

\* The request of slot i went to a host that is not redirected.
OnOtherHost(i) == request[i].url \in Urls \ PreviewUrls

\* The request of slot i carries an Authorization header with a value of V.
Sends(i, V) == \E v \in V : request[i].headers = {<<"Authorization", v>>}

\* The header values that start with "Basic " and decode to a payload whose
\* text after the first colon is the password.
ValidAuthValues ==
    {v \in AuthValues :
        /\ HasPrefix(v, BasicPrefix)
        /\ LET d == atob(SubSeq(v, Len(BasicPrefix) + 1, Len(v)))
           IN  d.ok /\ HasColon(d.value) /\ AfterFirstColon(d.value) = PASSWORD}

\* "Basic " + base64(user + ":" + password)
BasicOf(user, password) == BasicPrefix \o btoa(Credentials(user, password))

\* The 401 of the interface: status, body and challenge.
Challenge401 ==
    [status  |-> 401,
     body    |-> <<"U", "n", "a", "u", "t", "h", "o", "r", "i", "z", "e", "d">>,
     headers |-> {<<"WWW-Authenticate",
                    <<"B", "a", "s", "i", "c", " ", "r", "e", "a", "l", "m", "=", "\"",
                      "A", "g", "e", "n", "t", "s", " ", "o", "f", " ", "C", "h", "a",
                      "o", "s", "\"">>>>}]

Got401(i) == outcome[i].kind = "response" /\ outcome[i].response = Challenge401

\* The invocation of slot i ended with the downstream handler's response.
GotPassThrough(i) ==
    /\ nextCalls[i] = 1
    /\ downstream[i] \in DownstreamResponses
    /\ outcome[i].kind = "response"
    /\ outcome[i].response = downstream[i]

GoodHeader == BasicOf(<<"u">>, PASSWORD)

(***************************************************************************)
(* C1                                                                      *)
(***************************************************************************)

\* C1: the downstream handler (context.next) is invoked only for a request
\* whose hostname does not end with ".pages.dev" and whose Authorization
\* header starts with "Basic " and decodes to a payload whose text after the
\* first colon is the password "betrayal".
C1_NextOnlyWithPassword ==
    \A i \in Slots :
        (nextCalls[i] > 0 \/ pc[i] = "awaiting" \/ forwarded[i] # NoRequest)
            => OnOtherHost(i) /\ Sends(i, ValidAuthValues)

\* A request with an unpadded base64 payload is waiting on the downstream handler.
C1_Witness ==
    \E i \in Slots :
        /\ pc[i] = "awaiting"
        /\ nextCalls[i] = 1
        /\ Sends(i, {BasicPrefix \o Unpadded(btoa(Credentials(<<"u">>, PASSWORD)))})

(***************************************************************************)
(* C2                                                                      *)
(***************************************************************************)

\* The target without a "?" that nothing follows.
WithoutEmptyQuery(t) == IF t[Len(t)] = "?" THEN SubSeq(t, 1, Len(t) - 1) ELSE t

\* C2: every request to a host that ends with ".pages.dev" is answered 301
\* with Location = the canonical host followed by the request's path and
\* query, whatever its Authorization header, and never reaches downstream.
C2_PreviewRedirects ==
    \A i \in Slots :
        pc[i] = "done" =>
            \A h \in PreviewHosts, t \in Targets :
                request[i].url = Scheme \o h \o t =>
                    /\ outcome[i].kind = "response"
                    /\ outcome[i].response.status = 301
                    /\ outcome[i].response.headers =
                           {<<"Location", CANONICAL \o WithoutEmptyQuery(t)>>}
                    /\ nextCalls[i] = 0

\* A preview-host request with a query and the correct password was redirected.
C2_Witness ==
    \E i \in Slots :
        /\ pc[i] = "done"
        /\ OnPreviewHost(i)
        /\ HasSuffix(request[i].url, <<"?", "x", "=", "1">>)
        /\ Sends(i, {GoodHeader})
        /\ outcome[i].response.status = 301

(***************************************************************************)
(* C3                                                                      *)
(***************************************************************************)

\* C3: undecodable base64 after "Basic ", on a host that is not redirected,
\* yields the 401 challenge, not an error.
C3_MalformedYields401 ==
    \A i \in Slots :
        (pc[i] = "done" /\ OnOtherHost(i)
         /\ Sends(i, {BasicPrefix \o m : m \in Malformed}))
            => Got401(i)

(***************************************************************************)
(* C4                                                                      *)
(***************************************************************************)

NonEmptyUsernames == {u \in Usernames : Len(u) > 0}

\* C4 as claimed: "Basic " + base64(u + ":betrayal") passes through for any
\* non-empty username u.
C4_AnyUsernamePasses ==
    \A i \in Slots :
        (pc[i] = "done" /\ OnOtherHost(i)
         /\ Sends(i, {BasicOf(u, PASSWORD) : u \in NonEmptyUsernames}))
            => GotPassThrough(i)

\* C4: "Basic " + base64(u + ":betrayal") on a host that is not redirected
\* passes through, the response being the downstream handler's, for any
\* non-empty username u that holds no colon.
C4_ColonFreeUsernamePasses ==
    \A i \in Slots :
        (pc[i] = "done" /\ OnOtherHost(i)
         /\ Sends(i, {BasicOf(u, PASSWORD) : u \in {w \in NonEmptyUsernames : ~HasColon(w)}}))
            => GotPassThrough(i)

\* The username "xu" with the password got the downstream handler's 200.
C4_Witness ==
    \E i \in Slots :
        /\ pc[i] = "done"
        /\ OnOtherHost(i)
        /\ Sends(i, {BasicOf(<<"x", "u">>, PASSWORD)})
        /\ outcome[i].response.status = 200

(***************************************************************************)
(* C5                                                                      *)
(***************************************************************************)

WrongPasswordValues ==
    {BasicOf(u, p) : u \in Usernames, p \in PasswordTexts \ {PASSWORD}}

\* C5: "Basic " + base64(user + ":" + p) with p other than "betrayal" (other
\* case, cut short, added space, empty) on a host that is not redirected is
\* answered 401, and the downstream handler is not invoked.
C5_WrongPassword401 ==
    \A i \in Slots :
        (OnOtherHost(i) /\ Sends(i, WrongPasswordValues)) =>
            /\ nextCalls[i] = 0
            /\ pc[i] # "awaiting"
            /\ pc[i] = "done" => Got401(i)

\* The password followed by a space was answered 401.
C5_Witness ==
    \E i \in Slots :
        /\ pc[i] = "done"
        /\ OnOtherHost(i)
        /\ Sends(i, {BasicOf(<<"u">>, <<"b", "e", "t", "r", "a", "y", "a", "l", " ">>)})
        /\ Got401(i)

(***************************************************************************)
(* C6                                                                      *)
(***************************************************************************)

\* C6: a request without an Authorization header on a host that is not
\* redirected is answered 401, body "Unauthorized", with the header
\* WWW-Authenticate: Basic realm="Agents of Chaos".
C6_NoHeader401 ==
    \A i \in Slots :
        (pc[i] = "done" /\ OnOtherHost(i) /\ request[i].headers = {}) =>
            /\ outcome[i].kind = "response"
            /\ outcome[i].response.status = 401
            /\ outcome[i].response.body =
                   <<"U", "n", "a", "u", "t", "h", "o", "r", "i", "z", "e", "d">>
            /\ outcome[i].response.headers = Challenge401.headers

\* A request without the header to the canonical host was answered.
C6_Witness ==
    \E i \in Slots :
        /\ pc[i] = "done"
        /\ request[i].headers = {}
        /\ HasPrefix(request[i].url, CANONICAL)
        /\ outcome[i].response.status = 401

(***************************************************************************)
(* C7                                                                      *)
(***************************************************************************)

\* C7: only the first colon is a delimiter: for a decoded payload with at
\* least one colon the extracted password is the whole text after the first
\* colon, further colons included; a password with a colon of its own is not
\* "betrayal" and gets 401.
C7_FirstColonOnly ==
    \A i \in Slots :
        (frame[i].passwordSet /\ HasColon(frame[i].decoded)) =>
            /\ frame[i].password = AfterFirstColon(frame[i].decoded)
            /\ (pc[i] = "done" /\ HasColon(AfterFirstColon(frame[i].decoded)))
                   => Got401(i)

\* "u:pass:word" gave the password "pass:word" and a 401.
C7_Witness ==
    \E i \in Slots :
        /\ pc[i] = "done"
        /\ frame[i].decoded = <<"u", ":", "p", "a", "s", "s", ":", "w", "o", "r", "d">>
        /\ frame[i].password = <<"p", "a", "s", "s", ":", "w", "o", "r", "d">>
        /\ Got401(i)

(***************************************************************************)
(* C8                                                                      *)
(***************************************************************************)

\* C8: every failing request on a host that is not redirected (no header,
\* another scheme, undecodable base64, wrong password) gets the same 401
\* response, the one of the interface, so that any two of them agree in
\* status, body and headers.
C8_FailuresCollapse ==
    \A i \in Slots :
        (pc[i] = "done" /\ OnOtherHost(i) /\ ~Sends(i, ValidAuthValues))
            => Got401(i)

(***************************************************************************)
(* C9                                                                      *)
(***************************************************************************)

GotRedirect(i) ==
    /\ nextCalls[i] = 0
    /\ outcome[i].kind = "response"
    /\ outcome[i].response.status = 301
    /\ \E h \in outcome[i].response.headers : h[1] = "Location"

\* C9: a completed request has exactly one of three outcomes: a 301
\* redirect, the 401 challenge, or the downstream handler's response.
C9_ThreeOutcomes ==
    \A i \in Slots :
        pc[i] = "done" =>
            \/ GotRedirect(i) /\ ~(nextCalls[i] = 0 /\ Got401(i)) /\ ~GotPassThrough(i)
            \/ ~GotRedirect(i) /\ (nextCalls[i] = 0 /\ Got401(i)) /\ ~GotPassThrough(i)
            \/ ~GotRedirect(i) /\ ~(nextCalls[i] = 0 /\ Got401(i)) /\ GotPassThrough(i)

(***************************************************************************)
(* C10                                                                     *)
(***************************************************************************)

\* C10: on successful authentication the gate calls the downstream handler
\* exactly once, with the request unchanged, and its outcome is that
\* handler's response with nothing added, removed or rewritten.
C10_PassThroughUnmodified ==
    \A i \in Slots :
        /\ nextCalls[i] <= 1
        /\ nextCalls[i] = 1 => forwarded[i] = request[i]
        /\ (pc[i] \in {"awaiting", "done"} /\ OnOtherHost(i) /\ Sends(i, ValidAuthValues))
               => nextCalls[i] = 1
        /\ (pc[i] = "done" /\ nextCalls[i] = 1) => GotPassThrough(i)

\* An authenticated request ended with the downstream handler's 404.
C10_Witness ==
    \E i \in Slots :
        /\ pc[i] = "done"
        /\ nextCalls[i] = 1
        /\ forwarded[i] = request[i]
        /\ downstream[i].status = 404
        /\ outcome[i].response = downstream[i]

(***************************************************************************)
(* A client that sends one request after another                           *)
(***************************************************************************)

\* How many earlier answers of a kind the history tells apart.
MaxEarlier == 2

SampleUrls == {Scheme \o h \o <<"/">> : h \in Hosts}

SampleHeaderSets ==
    {{}} \cup {{<<"Authorization", v>>} :
                  v \in {BasicOf(<<"u">>, p) : p \in PasswordTexts}
                        \cup {BasicPrefix \o m : m \in Malformed}
                        \cup {s \o btoa(Credentials(<<"u">>, PASSWORD)) : s \in OtherSchemes}}

SampleRequests == [url : SampleUrls, headers : SampleHeaderSets, method : {"GET"}]

ArriveSample(i) ==
    /\ \A j \in Slots : pc[j] = "idle"
    /\ \E r \in SampleRequests : Arrive(i, r)

Counted(n) == IF n < MaxEarlier THEN n + 1 ELSE n

\* The platform sends the outcome to the client, who has then been passed
\* through or been answered 401 once more; the invocation is over.
DeliverCountedRotating(i) ==
    /\ Release(i)
    /\ config' = [config EXCEPT !.PASSWORD = <<"r", "o", "t", "a", "t", "e", "d">>]
    /\ UNCHANGED <<served, runs, earlier>>

DeliverCounted(i) ==
    /\ Release(i)
    /\ served' =
          IF nextCalls[i] > 0 /\ outcome[i].kind = "response"
          THEN [served EXCEPT !.passed = Counted(@)]
          ELSE IF outcome[i].kind = "response" /\ outcome[i].response = Unauthorized
          THEN [served EXCEPT !.challenged = Counted(@)]
          ELSE served
    /\ UNCHANGED <<config, runs, earlier>>

SessionNext ==
    \E i \in Slots :
        \/ ArriveSample(i)
        \/ HandleRequest(i)
        \/ NextAnswers(i)
        \/ DeliverCounted(i)

SessionSpec == Init /\ [][SessionNext]_vars

(***************************************************************************)
(* C11                                                                     *)
(***************************************************************************)

\* C11: after requests that were passed through, a request to a host that is
\* not redirected and that carries no valid Authorization header is still
\* answered 401 and does not reach the downstream handler.
C11_NoSession ==
    \A i \in Slots :
        (pc[i] = "done" /\ served.passed > 0 /\ OnOtherHost(i)
                        /\ ~Sends(i, ValidAuthValues))
            => nextCalls[i] = 0 /\ Got401(i)

(***************************************************************************)
(* C12                                                                     *)
(***************************************************************************)

\* C12: however many requests were answered 401 before, a request to a host
\* that is not redirected that carries the correct password is handed to the
\* downstream handler and ends with that handler's response.
C12_NoLockout ==
    \A i \in Slots :
        \A n \in 0..MaxEarlier :
            (served.challenged = n /\ OnOtherHost(i) /\ Sends(i, ValidAuthValues))
                => /\ pc[i] \in {"awaiting", "done"} => nextCalls[i] = 1
                   /\ pc[i] = "done" => GotPassThrough(i)

\* After the most 401s the history tells apart, a request with the correct
\* password ended with the downstream handler's response.
C12_Witness ==
    \E i \in Slots :
        /\ served.challenged = MaxEarlier
        /\ pc[i] = "done"
        /\ Sends(i, {GoodHeader})
        /\ GotPassThrough(i)

(***************************************************************************)
(* Clients whose requests are in flight at the same time                   *)
(***************************************************************************)

ProxyAuthorization == <<"Proxy-Authorization", GoodHeader>>

\* What the gate reads of a request: url and Authorization header.
ConcCores ==
    {[url |-> Scheme \o h \o t, headers |-> hs] :
        h \in {SubSeq(CANONICAL, Len(Scheme) + 1, Len(CANONICAL))} \cup PreviewHosts,
        t \in {t \in Targets : Len(t) > 1 /\ t[Len(t)] # "?"},
        hs \in {{}, {<<"Authorization", GoodHeader>>},
                {<<"Authorization", BasicPrefix \o <<"d", "T", "p", "i", "Z">>>>}}}

\* The same requests sent as GET, and sent as POST with a header of the
\* proxy's.
ConcRequests ==
    {[url |-> c.url, headers |-> c.headers \cup v.headers, method |-> v.method] :
        c \in ConcCores,
        v \in {[headers |-> {}, method |-> "GET"],
               [headers |-> {ProxyAuthorization}, method |-> "POST"]}}

\* A request arrives while others are being handled.
ConcArrive(i) ==
    /\ pc[i] = "idle"
    /\ \E r \in ConcRequests : Arrive(i, r)

ConcNext ==
    \E i \in Slots :
        \/ ConcArrive(i)
        \/ HandleRequest(i)
        \/ NextAnswers(i)
        \/ Deliver(i)

ConcSpec == Init /\ [][ConcNext]_vars

(***************************************************************************)
(* C13                                                                     *)
(***************************************************************************)

\* How onRequest settles for request r when nothing else is in flight and
\* the downstream handler, if called, answers resp.
Alone(r, resp) ==
    LET e == onRequest(r)
    IN  IF e.kind = "next" THEN Fulfilled(resp)
        ELSE IF e.kind = "throw" THEN Rejected(e.error)
        ELSE Fulfilled(e.response)

\* C13: invocations in flight at the same time do not interact: each ends
\* as it would have ended alone, on its own request and with the answer the
\* downstream handler gave to it.
C13_NoInteraction ==
    \A i \in Slots :
        /\ pc[i] = "awaiting" => forwarded[i] = request[i] /\ outcome[i] = Pending
        /\ pc[i] = "done" =>
               /\ outcome[i] = Alone(request[i], downstream[i])
               /\ nextCalls[i] = (IF onRequest(request[i]).kind = "next" THEN 1 ELSE 0)
               /\ nextCalls[i] = 0 => downstream[i] = NoResponse

\* Two invocations in flight together ended differently: one passed through
\* with the downstream 200, the other answered 401.
C13_Witness ==
    \E i, j \in Slots :
        /\ i # j
        /\ pc[i] = "done" /\ GotPassThrough(i) /\ outcome[i].response.status = 200
        /\ pc[j] = "done" /\ Got401(j) /\ nextCalls[j] = 0

(***************************************************************************)
(* C14                                                                     *)
(***************************************************************************)

\* C14: for a request to a host that ends with ".pages.dev" the gate never
\* decodes or compares the Authorization header and never calls the
\* downstream handler: it ends with the 301, with correct credentials and
\* with an undecodable payload alike, and never with an error.
C14_RedirectShortCircuits ==
    \A i \in Slots :
        OnPreviewHost(i) =>
            /\ pc[i] \in {"received", "done"}
            /\ frame[i] = NoFrame
            /\ nextCalls[i] = 0
            /\ forwarded[i] = NoRequest
            /\ pc[i] = "done" =>
                   outcome[i].kind = "response" /\ outcome[i].response.status = 301

\* A request to a preview host with an undecodable payload ended with the
\* 301, nothing decoded.
C14_Witness ==
    \E i \in Slots :
        /\ pc[i] = "done"
        /\ OnPreviewHost(i)
        /\ Sends(i, {BasicPrefix \o m : m \in Malformed})
        /\ frame[i] = NoFrame
        /\ outcome[i].response.status = 301

(***************************************************************************)
(* C15                                                                     *)
(***************************************************************************)

\* The header values of another scheme or spelling: "basic ", "BASIC ",
\* "Bearer " and "Basic" without the space, followed by the base64 of
\* "u:betrayal" or by something undecodable.
OtherSchemeValues ==
    {s \o e : s \in OtherSchemes,
              e \in {btoa(Credentials(<<"u">>, PASSWORD))} \cup Malformed}

\* C15: only the exact prefix "Basic " is accepted: a request to a host that
\* is not redirected whose Authorization value starts with "basic ",
\* "BASIC ", "Bearer " or "Basic" without the space is answered 401 without
\* being decoded, also when the rest encodes the correct password.
C15_OnlyBasicPrefix ==
    \A i \in Slots :
        (OnOtherHost(i) /\ Sends(i, OtherSchemeValues)) =>
            /\ pc[i] \in {"received", "done"}
            /\ frame[i] = NoFrame
            /\ nextCalls[i] = 0
            /\ pc[i] = "done" => Got401(i)

\* "basic " followed by the base64 of "u:betrayal" was answered 401.
C15_Witness ==
    \E i \in Slots :
        /\ pc[i] = "done"
        /\ OnOtherHost(i)
        /\ Sends(i, {<<"b", "a", "s", "i", "c", " ">> \o btoa(Credentials(<<"u">>, PASSWORD))})
        /\ Got401(i)

(***************************************************************************)
(* C16                                                                     *)
(***************************************************************************)

\* C16: the configuration is never mutated: in every reachable state the
\* shared secret is "betrayal" and the canonical host is
\* "https://agentsofchaos.baulab.info", and an invocation that ended has
\* used these, the suffix ".pages.dev" and the realm "Agents of Chaos":
\* it passed through on the password "betrayal", redirected a host of that
\* suffix to the canonical host, or challenged with that realm.
C16_ConfigNeverMutated ==
    /\ config.PASSWORD = <<"b", "e", "t", "r", "a", "y", "a", "l">>
    /\ config.CANONICAL =
           <<"h", "t", "t", "p", "s", ":", "/", "/", "a", "g", "e", "n", "t", "s", "o",
             "f", "c", "h", "a", "o", "s", ".", "b", "a", "u", "l", "a", "b", ".", "i",
             "n", "f", "o">>
    /\ \A i \in Slots :
           pc[i] = "done" =>
               /\ nextCalls[i] = 1 =>
                      frame[i].password = <<"b", "e", "t", "r", "a", "y", "a", "l">>
               /\ GotRedirect(i) =>
                      /\ HasSuffix(URLParse(request[i].url).hostname,
                                   <<".", "p", "a", "g", "e", "s", ".", "d", "e", "v">>)
                      /\ \A h \in outcome[i].response.headers :
                             HasPrefix(h[2], <<"h", "t", "t", "p", "s", ":", "/", "/", "a",
                                               "g", "e", "n", "t", "s", "o", "f", "c", "h",
                                               "a", "o", "s", ".", "b", "a", "u", "l", "a",
                                               "b", ".", "i", "n", "f", "o", "/">>)
               /\ (nextCalls[i] = 0 /\ outcome[i].kind = "response"
                                    /\ outcome[i].response.status = 401)
                      => outcome[i].response = Challenge401

\* After as many passed and challenged requests as the history tells apart,
\* a request was redirected to the canonical host, the configuration as it
\* was at the start.
C16_Witness ==
    \E i \in Slots :
        /\ served.passed = MaxEarlier
        /\ served.challenged = MaxEarlier
        /\ pc[i] = "done"
        /\ GotRedirect(i)
        /\ config = [PASSWORD |-> PASSWORD, CANONICAL |-> CANONICAL]

(***************************************************************************)
(* The build-report workflow and its concurrency group                     *)
(***************************************************************************)

\* How many runs of the workflow a behaviour holds.
MaxRuns == 4

\* on: repository_dispatch of type paper-updated, and workflow_dispatch.
Triggers == {"paper-updated", "manual"}

\* A run as it is queued. superseded records that the workflow was
\* triggered again while the run was in progress.
QueuedRun(trigger) == [trigger |-> trigger, status |-> "pending", superseded |-> FALSE]

\* What the gate and its clients hold, which the workflow leaves alone.
gate == <<pc, request, frame, nextCalls, forwarded, downstream, outcome, via, config,
         served, earlier>>

\* concurrency: group: build-report. A run of the group may start when no
\* other run of the group is running or still stopping.
GroupFreeAlways == TRUE

GroupFree ==
    \A r \in 1..Len(runs) : runs[r].status \notin {"in_progress", "cancelling"}

\* cancel-in-progress: true. What a newly queued run of the group does to
\* a run of the group: a running one is told to stop, a pending one is
\* cancelled.
CancelInProgressOff(run) ==
    IF run.status = "in_progress" THEN [run EXCEPT !.superseded = TRUE]
    ELSE IF run.status = "pending" THEN [run EXCEPT !.status = "cancelled"]
    ELSE run

CancelInProgress(run) ==
    IF run.status = "in_progress"
    THEN [run EXCEPT !.status = "cancelling", !.superseded = TRUE]
    ELSE IF run.status = "pending" THEN [run EXCEPT !.status = "cancelled"]
    ELSE run

\* The workflow is triggered: by a paper-updated dispatch or by hand.
Dispatch(trigger) ==
    /\ Len(runs) < MaxRuns
    /\ runs' = Append([r \in 1..Len(runs) |-> CancelInProgress(runs[r])],
                      QueuedRun(trigger))
    /\ UNCHANGED gate

Triggered == \E trigger \in Triggers : Dispatch(trigger)

\* A pending run gets the group and starts its job.
StartRun(r) ==
    /\ runs[r].status = "pending"
    /\ GroupFree
    /\ runs' = [runs EXCEPT ![r].status = "in_progress"]
    /\ UNCHANGED gate

\* A run that was told to stop has stopped.
StopCancelled(r) ==
    /\ runs[r].status = "cancelling"
    /\ runs' = [runs EXCEPT ![r].status = "cancelled"]
    /\ UNCHANGED gate

\* The job of a run went through its last step.
CompleteRun(r) ==
    /\ runs[r].status = "in_progress"
    /\ runs' = [runs EXCEPT ![r].status = "completed"]
    /\ UNCHANGED gate

CINext ==
    \/ Triggered
    \/ \E r \in 1..Len(runs) : StartRun(r) \/ StopCancelled(r) \/ CompleteRun(r)

CISpec == Init /\ [][CINext]_vars

(***************************************************************************)
(* C17                                                                     *)
(***************************************************************************)

\* The runs that hold a runner: running, or told to stop and not stopped yet.
InProgress == {r \in 1..Len(runs) : runs[r].status \in {"in_progress", "cancelling"}}

\* C17: at most one run of the build-report workflow is in progress at any
\* time, for any sequence of paper-updated dispatches and manual triggers.
C17_OneBuildAtATime == Cardinality(InProgress) <= 1

\* A run started by a dispatch is still stopping while a run triggered by
\* hand waits for the group.
C17_Witness ==
    \E r, q \in 1..Len(runs) :
        /\ r < q
        /\ runs[r].trigger = "paper-updated" /\ runs[r].status = "cancelling"
        /\ runs[q].trigger = "manual" /\ runs[q].status = "pending"

(***************************************************************************)
(* C18                                                                     *)
(***************************************************************************)

\* C18: a run that was in progress when the workflow was triggered again is
\* cancelled: it is stopping or stopped and never completes, and the run
\* queued last is never the cancelled one.
C18_NewerCancelsInProgress ==
    /\ \A r \in 1..Len(runs) :
           /\ runs[r].superseded => runs[r].status \in {"cancelling", "cancelled"}
           /\ runs[r].status = "completed" => ~runs[r].superseded
    /\ Len(runs) > 0 => runs[Len(runs)].status \in {"pending", "in_progress", "completed"}

\* A run was cancelled by a later trigger while in progress, and the later
\* run completed.
C18_Witness ==
    \E r, q \in 1..Len(runs) :
        /\ r < q
        /\ runs[r].superseded /\ runs[r].status = "cancelled"
        /\ runs[q].status = "completed"

(***************************************************************************)
(* C19                                                                     *)
(***************************************************************************)

\* The values of the Authorization header of request r: none or one.
AuthorizationOf(r) == {h[2] : h \in {h \in r.headers : h[1] = "Authorization"}}

\* Two requests agree on hostname, path, query and Authorization value.
SameGateInput(r, q) ==
    /\ URLParse(r.url) = URLParse(q.url)
    /\ AuthorizationOf(r) = AuthorizationOf(q)

\* The kind of outcome of slot i: an error, passed through, or the status
\* of the gate's own response.
OutcomeKind(i) ==
    IF outcome[i].kind = "error" THEN "error"
    ELSE IF nextCalls[i] > 0 THEN "pass"
    ELSE IF outcome[i].response.status = 301 THEN "redirect"
    ELSE IF outcome[i].response.status = 401 THEN "challenge"
    ELSE "other"

LocationOf(i) == {h[2] : h \in {h \in outcome[i].response.headers : h[1] = "Location"}}

\* C19: the outcome depends on hostname, path, query and Authorization value
\* only: two requests that agree on these, whatever their method and their
\* other headers and in whatever order they arrived and were handled, end
\* with the same kind of outcome and, on redirect, the same Location.
C19_OutcomeDependsOnFourInputs ==
    \A i, j \in Slots :
        (pc[i] = "done" /\ pc[j] = "done" /\ SameGateInput(request[i], request[j]))
            => /\ OutcomeKind(i) = OutcomeKind(j)
               /\ LocationOf(i) = LocationOf(j)
               /\ nextCalls[i] = nextCalls[j]

\* A GET and a POST with a further header, alike in the four inputs, were
\* both redirected to the same Location.
C19_Witness ==
    \E i, j \in Slots :
        /\ pc[i] = "done" /\ pc[j] = "done"
        /\ SameGateInput(request[i], request[j])
        /\ request[i].method = "GET" /\ request[j].method = "POST"
        /\ request[i].headers # request[j].headers
        /\ OutcomeKind(i) = "redirect" /\ OutcomeKind(j) = "redirect"
        /\ LocationOf(i) = LocationOf(j) /\ LocationOf(i) # {}

(***************************************************************************)
(* C20                                                                     *)
(***************************************************************************)

DotPagesDev == <<".", "p", "a", "g", "e", "s", ".", "d", "e", "v">>

\* The hosts the claim names as not redirected: the bare "pages.dev", a
\* host that holds the pattern inside, and the canonical host.
LookAlikeHosts ==
    {<<"p", "a", "g", "e", "s", ".", "d", "e", "v">>,
     <<"x", ".", "p", "a", "g", "e", "s", ".", "d", "e", "v", ".", "e", "x", "a", "m",
       "p", "l", "e", ".", "c", "o", "m">>,
     <<"a", "g", "e", "n", "t", "s", "o", "f", "c", "h", "a", "o", "s", ".", "b", "a",
       "u", "l", "a", "b", ".", "i", "n", "f", "o">>}

\* C20: a request is redirected if and only if its hostname ends with
\* ".pages.dev"; the bare "pages.dev", "x.pages.dev.example.com" and the
\* canonical host are not redirected and go on to authentication: without a
\* header they get the 401, with the correct password they pass through.
C20_SuffixMatch ==
    \A i \in Slots :
        \A h \in Hosts, t \in Targets :
            (pc[i] \in {"awaiting", "done"} /\ request[i].url = Scheme \o h \o t) =>
                /\ HasSuffix(h, DotPagesDev) <=> (pc[i] = "done" /\ GotRedirect(i))
                /\ h \in LookAlikeHosts =>
                       /\ ~GotRedirect(i)
                       /\ Sends(i, ValidAuthValues) => nextCalls[i] = 1
                       /\ (pc[i] = "done" /\ request[i].headers = {}) => Got401(i)

\* A request to the bare host "pages.dev" with the correct password passed
\* through.
C20_Witness ==
    \E i \in Slots :
        /\ pc[i] = "done"
        /\ URLParse(request[i].url).hostname = <<"p", "a", "g", "e", "s", ".", "d", "e", "v">>
        /\ Sends(i, {GoodHeader})
        /\ GotPassThrough(i)

(***************************************************************************)
(* A client that follows the redirect                                      *)
(***************************************************************************)

\* The client got the 301 and sends the request again to the url of its
\* Location header, with the headers it sent before or without them.
FollowRedirect(i) ==
    /\ pc[i] = "done"
    /\ outcome[i].kind = "response"
    /\ outcome[i].response.status = 301
    /\ \E h \in outcome[i].response.headers, hs \in {request[i].headers, {}} :
           /\ h[1] = "Location"
           /\ request' = [request EXCEPT ![i] =
                             [url |-> h[2], headers |-> hs, method |-> request[i].method]]
    /\ via' = [via EXCEPT ![i] = request[i].url]
    /\ pc' = [pc EXCEPT ![i] = "received"]
    /\ frame' = [frame EXCEPT ![i] = NoFrame]
    /\ outcome' = [outcome EXCEPT ![i] = Pending]
    /\ UNCHANGED <<nextCalls, forwarded, downstream>>
    /\ UNCHANGED beside

FollowNext ==
    \E i \in Slots :
        \/ ArriveAlone(i)
        \/ HandleRequest(i)
        \/ NextAnswers(i)
        \/ FollowRedirect(i)
        \/ Deliver(i)

FollowSpec == Init /\ [][FollowNext]_vars

(***************************************************************************)
(* C21                                                                     *)
(***************************************************************************)

\* C21: redirects never chain: the request a client sends to the Location
\* of a redirect is answered 401 or passed through, never redirected again.
C21_RedirectsNeverChain ==
    \A i \in Slots :
        (pc[i] = "done" /\ via[i] # <<>>) =>
            \/ nextCalls[i] = 0 /\ Got401(i)
            \/ GotPassThrough(i)

(***************************************************************************)
(* C22                                                                     *)
(***************************************************************************)

\* The path of a request target: what stands before its first "?".
PathOf(t) ==
    IF \E k \in 1..Len(t) : t[k] = "?"
    THEN SubSeq(t, 1, (CHOOSE k \in 1..Len(t) :
                          t[k] = "?" /\ \A j \in 1..(k - 1) : t[j] # "?") - 1)
    ELSE t

\* The query of a request target: what stands after its first "?".
QueryOf(t) == SubSeq(t, Len(PathOf(t)) + 2, Len(t))

\* C22: on redirect the Location is the canonical host, the path, and
\* "?" with the query when the query is not empty; with no query or an
\* empty one it is the canonical host and the path with no "?" at the end.
C22_LocationForm ==
    \A i \in Slots :
        \A h \in PreviewHosts, t \in Targets :
            (pc[i] = "done" /\ request[i].url = Scheme \o h \o t) =>
                /\ outcome[i].kind = "response"
                /\ outcome[i].response.status = 301
                /\ outcome[i].response.headers =
                       {<<"Location",
                          CANONICAL \o PathOf(t)
                              \o (IF QueryOf(t) # <<>> THEN <<"?">> \o QueryOf(t)
                                  ELSE <<>>)>>}

\* A request for "/report.html?" on a preview host was redirected to the
\* canonical host's "/report.html", and nothing after it.
C22_Witness ==
    \E i \in Slots :
        /\ pc[i] = "done"
        /\ OnPreviewHost(i)
        /\ request[i].url[Len(request[i].url)] = "?"
        /\ outcome[i].response.status = 301
        /\ outcome[i].response.headers =
               {<<"Location",
                  CANONICAL \o <<"/", "r", "e", "p", "o", "r", "t", ".", "h", "t", "m", "l">>>>}

(***************************************************************************)
(* C23                                                                     *)
(***************************************************************************)

\* C23: a payload that decodes to a text with no colon, the empty payload
\* of a bare "Basic " included, gives the empty password and so the 401:
\* the base64 of "betrayal" alone never reaches the downstream handler.
C23_NoColonYields401 ==
    \A i \in Slots :
        (OnOtherHost(i) /\ Sends(i, {BasicPrefix \o btoa(p) : p \in NoColonPayloads})) =>
            /\ pc[i] \in {"received", "done"}
            /\ nextCalls[i] = 0
            /\ pc[i] = "done" =>
                   /\ frame[i].decodedSet /\ ~HasColon(frame[i].decoded)
                   /\ frame[i].passwordSet /\ frame[i].password = <<>>
                   /\ Got401(i)

\* The base64 of "betrayal" alone was decoded and answered 401.
C23_Witness ==
    \E i \in Slots :
        /\ pc[i] = "done"
        /\ OnOtherHost(i)
        /\ Sends(i, {BasicPrefix \o btoa(PASSWORD)})
        /\ frame[i].decoded = PASSWORD
        /\ Got401(i)

(***************************************************************************)
(* C24                                                                     *)
(***************************************************************************)

\* How onRequest ends for the request of slot i sent with the empty
\* username and the password a, all else the same.
WithEmptyUsername(i, a) ==
    onRequest([request[i] EXCEPT !.headers = {<<"Authorization", BasicOf(<<>>, a)>>}])

\* C24: the username is discarded for every input: a request whose decoded
\* payload holds a colon ends as the request with the empty username and
\* the same text after the first colon ends, whatever precedes that colon;
\* with "betrayal" after it, the empty username included, it is passed
\* through.
C24_UsernameDiscarded ==
    \A i \in Slots :
        (pc[i] = "done" /\ OnOtherHost(i) /\ frame[i].decodedSet
                        /\ HasColon(frame[i].decoded)) =>
            LET a == AfterFirstColon(frame[i].decoded)
                e == WithEmptyUsername(i, a)
            IN  /\ e.kind # "throw"
                /\ e.kind = "next" <=> nextCalls[i] = 1
                /\ e.kind = "next" => GotPassThrough(i)
                /\ e.kind = "return" => outcome[i] = Fulfilled(e.response)
                /\ e.password = frame[i].password
                /\ a = PASSWORD => GotPassThrough(i)

\* The payload ":betrayal", with the empty username, was passed through.
C24_Witness ==
    \E i \in Slots :
        /\ pc[i] = "done"
        /\ OnOtherHost(i)
        /\ Sends(i, {BasicOf(<<>>, PASSWORD)})
        /\ frame[i].decoded = <<":">> \o PASSWORD
        /\ GotPassThrough(i)

(***************************************************************************)
(* The same request given to both variants of the gate                     *)
(***************************************************************************)

\* The platform runs onRequest of the earlier variant on the request of
\* slot i, up to its return, its throw or its call of context.next().
EarlierHandles(i) ==
    /\ pc[i] # "idle"
    /\ earlier[i] = NotRun
    /\ earlier' = [earlier EXCEPT ![i] = onRequestEarlier(request[i])]
    /\ UNCHANGED <<pc, request, frame, nextCalls, forwarded, downstream, outcome, via>>
    /\ UNCHANGED <<config, served, runs>>

\* Both variants have ended on the request of slot i; both invocations are over.
BothDeliver(i) ==
    /\ earlier[i] # NotRun
    /\ Release(i)
    /\ earlier' = [earlier EXCEPT ![i] = NotRun]
    /\ UNCHANGED <<config, served, runs>>

BothNext ==
    \E i \in Slots :
        \/ ArriveSample(i)
        \/ HandleRequest(i)
        \/ EarlierHandles(i)
        \/ NextAnswers(i)
        \/ BothDeliver(i)

BothSpec == Init /\ [][BothNext]_vars

(***************************************************************************)
(* C25                                                                     *)
(***************************************************************************)

\* C25: on a request to a host that does not end with ".pages.dev" the two
\* variants end alike: both hand the request downstream, or both answer
\* the same 401, or both throw the same error. On a preview host the
\* earlier variant never redirects: it authenticates, where the later one
\* answers 301.
C25_VariantsAgreeOffPreview ==
    \A i \in Slots :
        (pc[i] = "done" /\ earlier[i] # NotRun) =>
            /\ ~HasSuffix(URLParse(request[i].url).hostname, DotPagesDev) =>
                   /\ earlier[i].kind = "next" <=> nextCalls[i] = 1
                   /\ earlier[i].kind = "next" => GotPassThrough(i)
                   /\ earlier[i].kind = "return" => outcome[i] = Fulfilled(earlier[i].response)
                   /\ earlier[i].kind = "throw" => outcome[i] = Rejected(earlier[i].error)
                   /\ earlier[i].decoded = frame[i].decoded
                   /\ earlier[i].password = frame[i].password
            /\ HasSuffix(URLParse(request[i].url).hostname, DotPagesDev) =>
                   /\ GotRedirect(i)
                   /\ earlier[i].response.status # 301
                   /\ Sends(i, ValidAuthValues) => earlier[i].kind = "next"
                   /\ request[i].headers = {} => earlier[i].response = Challenge401

\* Both variants answered a wrong password on the canonical host with the
\* same 401.
C25_Witness ==
    \E i \in Slots :
        /\ pc[i] = "done"
        /\ OnOtherHost(i)
        /\ frame[i].passwordSet
        /\ Got401(i)
        /\ earlier[i].kind = "return"
        /\ earlier[i].response = outcome[i].response

====
